---- MODULE Spec2Model ----
(***************************************************************************)
(* Model of utsusu: the template configuration (src/template_config.rs),   *)
(* its YAML parser, the binding resolution of render_single_file and the   *)
(* render pipeline of the utsusu-cli binary.                               *)
(*                                                                         *)
(* Strings that are matched by globs (patterns, relative paths) are kept   *)
(* as sequences of tokens, e.g. "sub/c.txt" is <<"sub", "/", "c", ".txt">>. *)
(* Option<T> is a sequence of length at most one: None is <<>>.            *)
(***************************************************************************)
EXTENDS Integers, Sequences, FiniteSets, TLC

VARIABLES
    config,         \* a TemplateConfig in the hands of its caller
    last_call,      \* the last method called on config, with what it returned
    override_context, \* the `context` argument of render_single_file
    final_context,  \* the context render_single_file hands to tera.render
    yaml,           \* input of parse_config_from_yaml_string, as loaded by saphyr
    parsed,         \* what parse_config_from_yaml_string / _from_file returned
    pc,             \* where main() of utsusu-cli stands
    template,       \* the requested template on disk: its directory, its files
    fs,             \* the directories and files at the output side
    dirs_to_traverse, \* work-list of get_all_template_filenames_from_directory
    filenames,      \* the files it has collected
    template_files_to_render,
    user_output,    \* the answer to the output prompt (user_output_filename/_directory)
    user_variables_context,
    output_path,    \* output_file_path / output_directory_path
    next_file,      \* position of the Directory-mode loop in template_files_to_render
    total_template_files_written,
    report,         \* the summary line printed on success
    exit_code,      \* the code the process exited with
    log             \* the calls main() has made to its collaborators, in order

configVars == <<config, last_call>>
renderVars == <<override_context, final_context>>
parseVars == <<yaml, parsed>>
mainVars == <<pc, template, fs, dirs_to_traverse, filenames, template_files_to_render,
              user_output, user_variables_context, output_path, next_file,
              total_template_files_written, report, exit_code, log>>
vars == <<configVars, renderVars, parseVars, mainVars>>

(***************************************************************************)
(* Bounds                                                                  *)
(***************************************************************************)
MaxIncludeLen == 2      \* longest `include` sequence of a document
MaxVariables == 2       \* most entries of a `variables` mapping

None == <<>>
Some(x) == <<x>>

(***************************************************************************)
(* YAML nodes (saphyr YamlOwned).  Every node is a record of one shape:    *)
(* t is the variant, s / n / b the payload of a String / Integer or        *)
(* FloatingPoint / Boolean scalar.  "Absent" stands for a key that         *)
(* mapping.get() does not find.  A FloatingPoint holds its value in        *)
(* tenths (n = 15 is 1.5).                                                 *)
(***************************************************************************)
Node(t, s, n, b) == [t |-> t, s |-> s, n |-> n, b |-> b]
Absent == Node("Absent", "", 0, FALSE)
YString(s) == Node("String", s, 0, FALSE)
YInteger(n) == Node("Integer", "", n, FALSE)
YFloat(tenths) == Node("FloatingPoint", "", tenths, FALSE)
YBoolean(b) == Node("Boolean", "", 0, b)
YNull == Node("Null", "", 0, FALSE)
YMapping == Node("Mapping", "", 0, FALSE)
YSequence == Node("Sequence", "", 0, FALSE)

ScalarTags == {"String", "Integer", "FloatingPoint", "Boolean", "Null"}

(***************************************************************************)
(* Rust's to_string() on the scalar payloads.                              *)
(***************************************************************************)
Digit(d) == CASE d = 0 -> "0" [] d = 1 -> "1" [] d = 2 -> "2" [] d = 3 -> "3"
              [] d = 4 -> "4" [] d = 5 -> "5" [] d = 6 -> "6" [] d = 7 -> "7"
              [] d = 8 -> "8" [] d = 9 -> "9"

RECURSIVE nat_to_string(_)
nat_to_string(n) ==
    IF n < 10 THEN Digit(n) ELSE nat_to_string(n \div 10) \o Digit(n % 10)

int_to_string(i) == IF i < 0 THEN "-" \o nat_to_string(-i) ELSE nat_to_string(i)

bool_to_string(b) == IF b THEN "true" ELSE "false"

\* f64 Display prints no fractional part for a whole number (1.0 is "1")
float_to_string(tenths) ==
    IF tenths % 10 = 0 THEN nat_to_string(tenths \div 10)
    ELSE nat_to_string(tenths \div 10) \o "." \o Digit(tenths % 10)

(***************************************************************************)
(* globset: Glob::new and GlobSet::is_match on token sequences.  With the  *)
(* default options `*` also matches the path separator.                    *)
(***************************************************************************)
Range(seq) == {seq[i] : i \in 1..Len(seq)}

glob_compiles(pattern) == "[" \notin Range(pattern)

RECURSIVE glob_is_match(_, _)
glob_is_match(pattern, path) ==
    IF pattern = <<>> THEN path = <<>>
    ELSE IF Head(pattern) = "*"
         THEN \/ glob_is_match(Tail(pattern), path)
              \/ path # <<>> /\ glob_is_match(pattern, Tail(path))
         ELSE /\ path # <<>>
              /\ Head(path) = Head(pattern)
              /\ glob_is_match(Tail(pattern), Tail(path))

(***************************************************************************)
(* TemplateConfig                                                          *)
(***************************************************************************)
NoVariables == [name \in {} |-> ""]

new == [included_file_patterns |-> <<>>,
        variables |-> NoVariables,
        output_type |-> "File",
        output_filename |-> None,
        output_directory |-> None]

update_included_file_patterns(self, globset) ==
    [self EXCEPT !.included_file_patterns = globset]

should_include_file(self, path) ==
    \E i \in 1..Len(self.included_file_patterns) :
        glob_is_match(self.included_file_patterns[i], path)

\* HashMap::insert: the new default replaces an earlier one of the same name
add_variable(self, variable_name, default) ==
    [self EXCEPT !.variables = (variable_name :> default) @@ self.variables]

\* what add_variable returns: the previous default, if any
add_variable_return(self, variable_name) ==
    IF variable_name \in DOMAIN self.variables
    THEN Some(self.variables[variable_name])
    ELSE None

\* a setter that switches the mode and keeps both names
set_output_type_keeps_names(self, output_type) ==
    [self EXCEPT !.output_type = output_type]

set_output_type(self, output_type) ==
    IF self.output_type = output_type THEN self
    ELSE IF self.output_type = "File"
         THEN [self EXCEPT !.output_type = output_type, !.output_filename = None]
         ELSE [self EXCEPT !.output_type = output_type, !.output_directory = None]

get_output_type(self) == self.output_type

set_output_filename(self, filename) ==
    IF self.output_type = "File"
    THEN [self EXCEPT !.output_filename = Some(filename)]
    ELSE self

get_output_filename(self) == self.output_filename

set_output_directory(self, directory) ==
    IF self.output_type = "Directory"
    THEN [self EXCEPT !.output_directory = Some(directory)]
    ELSE self

get_output_directory(self) == self.output_directory

get_render_context(self) == self.variables

(***************************************************************************)
(* The document tree parse_config_from_yaml_string reads.  A document is   *)
(* its root node with, for a mapping root, what mapping.get() finds under  *)
(* each key the parser asks for; `items` are the entries of an `include`   *)
(* sequence and `entries` the (name, default) pairs of the `variables`     *)
(* mapping in document order (keys of a mapping are unique).  A node that  *)
(* holds a glob carries its text as the token sequence g.                  *)
(***************************************************************************)
GlobNode(t, g) == [t |-> t, g |-> g]
Entry(name, default) == [name |-> name, default |-> default]

Document(root, type, output, filename, directory, include, items, variables, entries) ==
    [root |-> root, type |-> type, output |-> output, filename |-> filename,
     directory |-> directory, include |-> include, items |-> items,
     variables |-> variables, entries |-> entries]

\* Result<TemplateConfig, ConfigParseError>; "Panic" is the thread unwinding
Ok(c) == [tag |-> "Ok", config |-> Some(c), error |-> ""]
Err(e) == [tag |-> "Err", config |-> None, error |-> e]
Panic == [tag |-> "Panic", config |-> None, error |-> ""]
Pending == [tag |-> "Pending", config |-> None, error |-> ""]

\* a step of the parser: the error it returns with ("" when it goes on)
\* and the value it leaves for the steps after it
Step(error, value) == [error |-> error, value |-> value]

\* a parser for which a missing `type` means File
parse_output_type_defaults_to_file(mapping) ==
    IF mapping.type.t = "Absent" THEN Step("", "File")
    ELSE IF mapping.type.t # "String" THEN Step("InvalidOutputType", "File")
    ELSE IF mapping.type.s = "file" THEN Step("", "File")
    ELSE IF mapping.type.s = "directory" THEN Step("", "Directory")
    ELSE Step("InvalidOutputType", "File")

parse_output_type(mapping) ==
    IF mapping.type.t = "Absent" THEN Step("NoOutputType", "File")
    ELSE IF mapping.type.t # "String" THEN Step("InvalidOutputType", "File")
    ELSE IF mapping.type.s = "file" THEN Step("", "File")
    ELSE IF mapping.type.s = "directory" THEN Step("", "Directory")
    ELSE Step("InvalidOutputType", "File")

parse_output_mapping(mapping) ==
    IF mapping.output.t = "Absent" THEN "NoOutputConfig"
    ELSE IF mapping.output.t # "Mapping" THEN "OutputConfigMustBeAMapping"
    ELSE ""

\* output_type is the parser's local; the configuration is never told of it
parse_output_name(cfg, output_type, mapping) ==
    IF output_type = "File"
    THEN IF mapping.filename.t = "Absent" THEN Step("NoOutputFilename", cfg)
         ELSE IF mapping.filename.t # "String" THEN Step("InvalidOutputFilename", cfg)
         ELSE Step("", set_output_filename(cfg, mapping.filename.s))
    ELSE IF mapping.directory.t = "Absent" THEN Step("NoOutputDirectory", cfg)
         ELSE IF mapping.directory.t # "String" THEN Step("InvalidOutputDirectory", cfg)
         ELSE Step("", set_output_directory(cfg, mapping.directory.s))

\* the `for v in seq` loop: globs collected so far, or the first error
RECURSIVE add_globs(_, _)
add_globs(items, file_globs) ==
    IF items = <<>> THEN Step("", file_globs)
    ELSE IF Head(items).t # "String" THEN Step("IncludedFileGlobMustBeString", file_globs)
    ELSE IF ~glob_compiles(Head(items).g) THEN Step("IncludedFileGlobParseError", file_globs)
    ELSE add_globs(Tail(items), Append(file_globs, Head(items).g))

\* a parser without the File-mode length check
parse_included_files_unchecked(cfg, output_type, mapping) ==
    IF mapping.include.t = "Absent" THEN Step("NoIncludedFiles", cfg)
    ELSE IF mapping.include.t = "String"
         THEN IF glob_compiles(mapping.include.g)
              THEN Step("", update_included_file_patterns(cfg, <<mapping.include.g>>))
              ELSE Step("IncludedFileGlobParseError", cfg)
    ELSE IF mapping.include.t = "Sequence"
         THEN LET built == add_globs(mapping.items, <<>>) IN
              IF built.error # "" THEN Step(built.error, cfg)
              ELSE Step("", update_included_file_patterns(cfg, built.value))
    ELSE Step("InvalidIncludedFiles", cfg)

parse_included_files(cfg, output_type, mapping) ==
    IF mapping.include.t = "Absent" THEN Step("NoIncludedFiles", cfg)
    ELSE IF mapping.include.t = "String"
         THEN IF glob_compiles(mapping.include.g)
              THEN Step("", update_included_file_patterns(cfg, <<mapping.include.g>>))
              ELSE Step("IncludedFileGlobParseError", cfg)
    ELSE IF mapping.include.t = "Sequence"
         THEN IF output_type = "File" /\ Len(mapping.items) > 1
              THEN Step("TooManyIncludedFileGlobs", cfg)
              ELSE LET built == add_globs(mapping.items, <<>>) IN
                   IF built.error # "" THEN Step(built.error, cfg)
                   ELSE Step("", update_included_file_patterns(cfg, built.value))
    ELSE Step("InvalidIncludedFiles", cfg)

\* a parser that writes a null default as the text "null"
scalar_to_string_null_text(scalar_value) ==
    CASE scalar_value.t = "Null" -> "null"
      [] scalar_value.t = "Boolean" -> bool_to_string(scalar_value.b)
      [] scalar_value.t = "Integer" -> int_to_string(scalar_value.n)
      [] scalar_value.t = "FloatingPoint" -> float_to_string(scalar_value.n)
      [] scalar_value.t = "String" -> scalar_value.s

\* the match on scalar_value: the default's text
scalar_to_string(scalar_value) ==
    CASE scalar_value.t = "Null" -> ""
      [] scalar_value.t = "Boolean" -> bool_to_string(scalar_value.b)
      [] scalar_value.t = "Integer" -> int_to_string(scalar_value.n)
      [] scalar_value.t = "FloatingPoint" -> float_to_string(scalar_value.n)
      [] scalar_value.t = "String" -> scalar_value.s

\* the loop over variables_mapping.iter()
RECURSIVE add_variables(_, _)
add_variables(cfg, entries) ==
    IF entries = <<>> THEN Step("", cfg)
    ELSE IF Head(entries).name.t # "String" THEN Step("VariableNameMustBeAString", cfg)
    ELSE IF Head(entries).default.t \notin ScalarTags
         THEN Step("VariableDefaultMustBeAScalar", cfg)
    ELSE add_variables(add_variable(cfg, Head(entries).name.s,
                                    scalar_to_string(Head(entries).default)),
                       Tail(entries))

parse_variables(cfg, mapping) ==
    IF mapping.variables.t = "Absent" THEN Step("", cfg)
    ELSE IF mapping.variables.t # "Mapping" THEN Step("VariablesMustBeAMapping", cfg)
    ELSE add_variables(cfg, mapping.entries)

\* a parser that reads `include` before `output`
parse_mapping_include_first(mapping) ==
    LET type == parse_output_type(mapping)
        included == parse_included_files(new, type.value, mapping)
        output == parse_output_mapping(mapping)
        named == parse_output_name(included.value, type.value, mapping)
        variables == parse_variables(named.value, mapping)
    IN  IF type.error # "" THEN Err(type.error)
        ELSE IF included.error # "" THEN Err(included.error)
        ELSE IF output # "" THEN Err(output)
        ELSE IF named.error # "" THEN Err(named.error)
        ELSE IF variables.error # "" THEN Err(variables.error)
        ELSE Ok(variables.value)

\* the YamlOwned::Mapping arm: the steps in the order of the code, each
\* returning at its first error
parse_mapping(mapping) ==
    LET type == parse_output_type(mapping)
        output == parse_output_mapping(mapping)
        named == parse_output_name(new, type.value, mapping)
        included == parse_included_files(named.value, type.value, mapping)
        variables == parse_variables(included.value, mapping)
    IN  IF type.error # "" THEN Err(type.error)
        ELSE IF output # "" THEN Err(output)
        ELSE IF named.error # "" THEN Err(named.error)
        ELSE IF included.error # "" THEN Err(included.error)
        ELSE IF variables.error # "" THEN Err(variables.error)
        ELSE Ok(variables.value)

\* input: what YamlOwned::load_from_str gives, a scan error or the
\* documents of the text (none for a text that holds no document)
parse_config_from_yaml_string(input) ==
    IF input.scan_error THEN Err("YamlParseError")
    ELSE IF Len(input.docs) = 0 THEN Panic       \* &docs[0] out of bounds
    ELSE IF input.docs[1].root.t = "Mapping" THEN parse_mapping(input.docs[1])
    ELSE Err("ConfigMustBeAMapping")

(***************************************************************************)
(* render_single_file: the context handed to tera.render.                  *)
(* Context::extend inserts every pair of the source over the target.       *)
(***************************************************************************)
\* an extend that keeps the target's value of a name both hold
context_extend_keeps_target(self, source) == self @@ source

context_extend(self, source) == source @@ self

render_single_file_context(cfg, context) ==
    IF context = None THEN get_render_context(cfg)
    ELSE context_extend(get_render_context(cfg), context[1])

(***************************************************************************)
(* Inputs: the documents the parser is run on                              *)
(***************************************************************************)
RECURSIVE SeqsUpTo(_, _)
SeqsUpTo(S, n) ==
    IF n = 0 THEN {<<>>}
    ELSE LET shorter == SeqsUpTo(S, n - 1) IN
         shorter \cup {Append(q, x) : q \in {p \in shorter : Len(p) = n - 1}, x \in S}

GlobAllTxt == <<"*", ".txt">>
GlobSubTxt == <<"sub", "/", "*", ".txt">>
GlobTemplate == <<"template", ".txt">>
GlobUnclosed == <<"[", ".txt">>

TypeNodes ==
    {Absent, YString("file"), YString("directory"), YString("symlink"), YInteger(1)}

\* <<output, filename, directory>>
OutputShapes ==
    {<<Absent, Absent, Absent>>, <<YString("out"), Absent, Absent>>}
    \cup {<<YMapping, f, d>> : f \in {Absent, YString("out.txt"), YInteger(1)},
                               d \in {Absent, YString("out"), YInteger(1)}}

IncludeItems ==
    {GlobNode("String", GlobAllTxt), GlobNode("String", GlobUnclosed),
     GlobNode("Integer", <<>>)}

\* <<include, items>>
IncludeShapes ==
    {<<GlobNode("Absent", <<>>), <<>>>>,
     <<GlobNode("String", GlobAllTxt), <<>>>>,
     <<GlobNode("String", GlobUnclosed), <<>>>>,
     <<GlobNode("Integer", <<>>), <<>>>>}
    \cup {<<GlobNode("Sequence", <<>>), items>> : items \in SeqsUpTo(IncludeItems, MaxIncludeLen)}

VariableNames == {YString("name"), YString("lang"), YInteger(7)}
VariableDefaults ==
    {YNull, YBoolean(TRUE), YBoolean(FALSE), YInteger(42), YInteger(-7), YInteger(0),
     YFloat(15), YFloat(10), YString("x"), YString(""), YMapping, YSequence}

DistinctNames(entries) ==
    \A i, j \in 1..Len(entries) : entries[i].name = entries[j].name => i = j

EntryLists ==
    {es \in SeqsUpTo({Entry(k, d) : k \in VariableNames, d \in VariableDefaults},
                     MaxVariables) : DistinctNames(es)}

\* <<variables, entries>>
FewVariableShapes ==
    {<<Absent, <<>>>>, <<YString("none"), <<>>>>,
     <<YMapping, <<Entry(YString("name"), YString("x"))>>>>,
     <<YMapping, <<Entry(YInteger(7), YString("x"))>>>>,
     <<YMapping, <<Entry(YString("name"), YMapping)>>>>}

AllVariableShapes == {<<YMapping, es>> : es \in EntryLists}

MappingDocument(type, out, inc, vs) ==
    Document(YMapping, type, out[1], out[2], out[3], inc[1], inc[2], vs[1], vs[2])

NonMappingDocument(root) ==
    Document(root, Absent, Absent, Absent, Absent, GlobNode("Absent", <<>>), <<>>,
             Absent, <<>>)

FileOutput == <<YMapping, YString("out.txt"), Absent>>
DirectoryOutput == <<YMapping, Absent, YString("out")>>

\* every combination of the shapes of `type`, `output` and `include`
ShapeDocuments ==
    {MappingDocument(type, out, inc, vs) :
        type \in TypeNodes, out \in OutputShapes, inc \in IncludeShapes,
        vs \in FewVariableShapes}

\* valid `type`, `output` and `include` with every `variables` mapping
VariableDocuments ==
    {MappingDocument(YString("file"), FileOutput,
                     <<GlobNode("String", GlobAllTxt), <<>>>>, vs) :
        vs \in AllVariableShapes}
    \cup {MappingDocument(YString("directory"), DirectoryOutput,
                          <<GlobNode("Sequence", <<>>), <<GlobNode("String", GlobAllTxt)>>>>, vs) :
        vs \in AllVariableShapes}

Documents ==
    ShapeDocuments \cup VariableDocuments
    \cup {NonMappingDocument(YString("text")), NonMappingDocument(YSequence),
          NonMappingDocument(YNull)}

Loaded(docs) == [scan_error |-> FALSE, docs |-> docs]

YamlInputs ==
    {[scan_error |-> TRUE, docs |-> <<>>], Loaded(<<>>)}
    \cup {Loaded(<<d>>) : d \in Documents}
    \cup {Loaded(<<d, NonMappingDocument(YString("text"))>>) :
            d \in {NonMappingDocument(YSequence),
                   MappingDocument(YString("file"), FileOutput,
                                   <<GlobNode("String", GlobAllTxt), <<>>>>,
                                   <<Absent, <<>>>>)}}

(***************************************************************************)
(* The parser run on one input                                             *)
(***************************************************************************)
Call(op, arg, returned) == [op |-> op, arg |-> arg, returned |-> returned]

IdleConfig == config = new /\ last_call = Call("new", "", None)
IdleRender == override_context = None /\ final_context = None

\* main() is not running
IdleMain ==
    /\ pc = "idle"
    /\ template = [is_dir |-> FALSE, readable |-> FALSE, tree |-> <<>>]
    /\ fs = [dirs |-> {}, files |-> {}]
    /\ dirs_to_traverse = <<>>
    /\ filenames = <<>>
    /\ template_files_to_render = <<>>
    /\ user_output = [filename |-> None, directory |-> None]
    /\ user_variables_context = NoVariables
    /\ output_path = <<>>
    /\ next_file = 1
    /\ total_template_files_written = 0
    /\ report = None
    /\ exit_code = None
    /\ log = <<>>

InitParse ==
    /\ yaml \in YamlInputs
    /\ parsed = Pending
    /\ IdleConfig
    /\ IdleRender
    /\ IdleMain

ParseConfigFromYamlString ==
    /\ parsed = Pending
    /\ parsed' = parse_config_from_yaml_string(yaml)
    /\ UNCHANGED <<yaml, configVars, renderVars, mainVars>>

NextParse == ParseConfigFromYamlString

SpecParse == InitParse /\ [][NextParse]_vars

(***************************************************************************)
(* A TemplateConfig under its mutators, from TemplateConfig::new() or from *)
(* the parser.                                                             *)
(***************************************************************************)
OutputTypes == {"File", "Directory"}
OutputNames == {"out.txt", "out"}
ConfigVariableNames == {"name", "lang"}
ConfigDefaults == {"x", "y"}
GlobSets == {<<>>, <<GlobAllTxt>>, <<GlobAllTxt, GlobSubTxt>>}

\* texts a caller may hand to the parser
ConfigDocuments ==
    {MappingDocument(YString("file"), FileOutput,
                     <<GlobNode("String", GlobAllTxt), <<>>>>, vs) :
        vs \in {<<Absent, <<>>>>, <<YMapping, <<Entry(YString("name"), YString("x"))>>>>}}
    \cup {MappingDocument(YString("directory"), DirectoryOutput,
                          <<GlobNode("Sequence", <<>>),
                            <<GlobNode("String", GlobAllTxt), GlobNode("String", GlobSubTxt)>>>>,
                          <<Absent, <<>>>>),
          MappingDocument(YString("file"), FileOutput, <<GlobNode("Absent", <<>>), <<>>>>,
                          <<Absent, <<>>>>)}

IdleParse == yaml = Loaded(<<>>) /\ parsed = Pending

InitConfig ==
    /\ IdleConfig
    /\ IdleRender
    /\ IdleParse
    /\ IdleMain

OnlyConfig == UNCHANGED <<renderVars, parseVars, mainVars>>

SetOutputType ==
    \E output_type \in OutputTypes :
        /\ config' = set_output_type(config, output_type)
        /\ last_call' = Call("set_output_type", output_type, None)
        /\ OnlyConfig

SetOutputFilename ==
    \E filename \in OutputNames :
        /\ config' = set_output_filename(config, filename)
        /\ last_call' = Call("set_output_filename", filename, None)
        /\ OnlyConfig

SetOutputDirectory ==
    \E directory \in OutputNames :
        /\ config' = set_output_directory(config, directory)
        /\ last_call' = Call("set_output_directory", directory, None)
        /\ OnlyConfig

AddVariable ==
    \E variable_name \in ConfigVariableNames, default \in ConfigDefaults :
        /\ config' = add_variable(config, variable_name, default)
        /\ last_call' = Call("add_variable", variable_name,
                             add_variable_return(config, variable_name))
        /\ OnlyConfig

UpdateIncludedFilePatterns ==
    \E globset \in GlobSets :
        /\ config' = update_included_file_patterns(config, globset)
        /\ last_call' = Call("update_included_file_patterns", "", None)
        /\ OnlyConfig

\* the caller replaces its configuration by one the parser returns
ParseConfig ==
    \E d \in ConfigDocuments :
        LET result == parse_config_from_yaml_string(Loaded(<<d>>)) IN
        /\ result.tag = "Ok"
        /\ config' = result.config[1]
        /\ last_call' = Call("parse_config_from_yaml_string", d.type.s, None)
        /\ OnlyConfig

NextConfig ==
    \/ SetOutputType
    \/ SetOutputFilename
    \/ SetOutputDirectory
    \/ AddVariable
    \/ UpdateIncludedFilePatterns
    \/ ParseConfig

SpecConfig == InitConfig /\ [][NextConfig]_vars

(***************************************************************************)
(* render_single_file on a configuration and an override context           *)
(***************************************************************************)
Contexts(names, values) == UNION {[S -> values] : S \in SUBSET names}

InitRender ==
    /\ config \in {[new EXCEPT !.variables = variables] :
                      variables \in Contexts(ConfigVariableNames, ConfigDefaults)}
    /\ last_call = Call("new", "", None)
    /\ override_context \in
          {None} \cup {Some(c) : c \in Contexts(ConfigVariableNames \cup {"extra"}, {"x", "o"})}
    /\ final_context = None
    /\ IdleParse
    /\ IdleMain

RenderSingleFile ==
    /\ final_context = None
    /\ final_context' = Some(render_single_file_context(config, override_context))
    /\ UNCHANGED <<configVars, override_context, parseVars, mainVars>>

NextRender == RenderSingleFile

SpecRender == InitRender /\ [][NextRender]_vars

(***************************************************************************)
(* Paths, the file system and the terminal, as main() uses them            *)
(***************************************************************************)
\* PathBuf::from
path_from(string) == IF string = "" THEN <<>> ELSE <<string>>

\* Path::join
path_join(base, relative) ==
    IF base = <<>> THEN relative
    ELSE IF relative = <<>> THEN base
    ELSE base \o <<"/">> \o relative

\* Path::strip_prefix
strip_prefix(path, base) ==
    IF path = base THEN Some(<<>>)
    ELSE IF /\ Len(path) > Len(base) + 1
            /\ SubSeq(path, 1, Len(base)) = base
            /\ path[Len(base) + 1] = "/"
         THEN Some(SubSeq(path, Len(base) + 2, Len(path)))
    ELSE None

Slashes(path) == {i \in 1..Len(path) : path[i] = "/"}

\* the directory a path lies in; <<>> is the working directory
path_parent(path) ==
    IF Slashes(path) = {} THEN <<>>
    ELSE SubSeq(path, 1, (CHOOSE i \in Slashes(path) : \A j \in Slashes(path) : j <= i) - 1)

DirectoryExists(files, path) == path = <<>> \/ path \in files.dirs

\* std::fs::write succeeds only into an existing directory
fs_write_possible(files, path) ==
    /\ path # <<>>
    /\ path \notin files.dirs
    /\ DirectoryExists(files, path_parent(path))

\* std::fs::create_dir makes one directory, which must not exist
fs_create_dir_possible(files, path) ==
    /\ path # <<>>
    /\ path \notin files.dirs
    /\ path \notin files.files
    /\ DirectoryExists(files, path_parent(path))

Whitespace == {" ", "\n"}

\* str::trim on a line of tokens
RECURSIVE trim_start(_)
trim_start(line) ==
    IF line # <<>> /\ Head(line) \in Whitespace THEN trim_start(Tail(line)) ELSE line

RECURSIVE trim_end(_)
trim_end(line) ==
    IF line # <<>> /\ line[Len(line)] \in Whitespace
    THEN trim_end(SubSeq(line, 1, Len(line) - 1))
    ELSE line

RECURSIVE Text(_)
Text(tokens) == IF tokens = <<>> THEN "" ELSE Head(tokens) \o Text(Tail(tokens))

\* get_user_input on the line read_line appended to `input`
get_user_input(line) ==
    LET trimmed_input == Text(trim_end(trim_start(line))) IN
    IF trimmed_input = "" THEN None ELSE Some(trimmed_input)

\* get_user_variable_choices: answers is the line typed at each variable's prompt
get_user_variable_choices(cfg, answers) ==
    [var_name \in {n \in DOMAIN cfg.variables : get_user_input(answers[n]) # None}
        |-> get_user_input(answers[var_name])[1]]

parse_config_from_file(readable, input) ==
    IF ~readable THEN Err("FileReadError")
    ELSE parse_config_from_yaml_string(input)

Orders(S) ==
    {order \in [1..Cardinality(S) -> S] :
        \A i, j \in 1..Cardinality(S) : order[i] = order[j] => i = j}

\* a loop that collects the files of a directory and never descends
visit_entries_files_only(entries, traverse_dir, dirs, files) ==
    [dirs |-> dirs,
     files |-> files \o [i \in 1..Len(SelectSeq(entries, LAMBDA e : ~e.is_dir))
                            |-> path_join(traverse_dir,
                                          SelectSeq(entries, LAMBDA e : ~e.is_dir)[i].name)]]

\* the `for entry in read_dir(traverse_dir)` loop
RECURSIVE visit_entries(_, _, _, _)
visit_entries(entries, traverse_dir, dirs, files) ==
    IF entries = <<>> THEN [dirs |-> dirs, files |-> files]
    ELSE LET path == path_join(traverse_dir, Head(entries).name) IN
         IF Head(entries).is_dir
         THEN visit_entries(Tail(entries), traverse_dir, Append(dirs, path), files)
         ELSE visit_entries(Tail(entries), traverse_dir, dirs, Append(files, path))

\* the loop of main() that keeps the files the configuration includes
RECURSIVE files_to_render(_, _, _)
files_to_render(cfg, files, template_files_path) ==
    IF files = <<>> THEN <<>>
    ELSE LET f == Head(files)
             files_dir_relative_filename == strip_prefix(f, template_files_path)
             rest == files_to_render(cfg, Tail(files), template_files_path)
         IN  IF /\ files_dir_relative_filename # None
                /\ should_include_file(cfg, files_dir_relative_filename[1])
             THEN <<f>> \o rest
             ELSE rest

option_or(first, second) == IF first # None THEN first ELSE second
unwrap_or(option, default) == IF option # None THEN option[1] ELSE default

(***************************************************************************)
(* Inputs of main(): the template on disk, the output side, the terminal   *)
(***************************************************************************)
TemplateFilesPath == <<"files">>

DirEntry(name, is_dir) == [name |-> name, is_dir |-> is_dir]

\* files/a.txt, files/b.txt, files/sub/c.txt
TreeThree ==
    (<<"files">> :> {DirEntry(<<"a", ".txt">>, FALSE), DirEntry(<<"b", ".txt">>, FALSE),
                     DirEntry(<<"sub">>, TRUE)})
    @@ (<<"files", "/", "sub">> :> {DirEntry(<<"c", ".txt">>, FALSE)})

\* files/template.txt
TreeOne == <<"files">> :> {DirEntry(<<"template", ".txt">>, FALSE)}

\* files/notes.md
TreeOther == <<"files">> :> {DirEntry(<<"notes", ".md">>, FALSE)}

\* files/a.txt, files/b.txt
TreeTwo == <<"files">> :> {DirEntry(<<"a", ".txt">>, FALSE), DirEntry(<<"b", ".txt">>, FALSE)}

\* files/sub/c.txt, files/sub/deep/d.txt, files/empty/
TreeDeep ==
    (<<"files">> :> {DirEntry(<<"sub">>, TRUE), DirEntry(<<"empty">>, TRUE)})
    @@ (<<"files", "/", "sub">> :> {DirEntry(<<"c", ".txt">>, FALSE), DirEntry(<<"deep">>, TRUE)})
    @@ (<<"files", "/", "sub", "/", "deep">> :> {DirEntry(<<"d", ".txt">>, FALSE)})
    @@ (<<"files", "/", "empty">> :> {})

Trees == {TreeThree, TreeOne, TreeOther, TreeTwo, TreeDeep}

Variables(vs) == <<YMapping, vs>>
NoVariablesKey == <<Absent, <<>>>>

FileDocument(include, vs) ==
    MappingDocument(YString("file"), FileOutput, include, vs)

DirectoryDocument(include, vs) ==
    MappingDocument(YString("directory"), DirectoryOutput, include, vs)

IncludeString(g) == <<GlobNode("String", g), <<>>>>
IncludeSequence(globs) ==
    <<GlobNode("Sequence", <<>>), [i \in 1..Len(globs) |-> GlobNode("String", globs[i])]>>
IncludeAbsent == <<GlobNode("Absent", <<>>), <<>>>>

NameWorld == Variables(<<Entry(YString("name"), YString("World"))>>)

\* type: directory, output.directory: out, include: ["*.txt", "sub/*.txt"]
ScenarioDocument == DirectoryDocument(IncludeSequence(<<GlobAllTxt, GlobSubTxt>>), NoVariablesKey)

\* type: file, output.filename: "", include: template.txt
EmptyFilenameDocument ==
    MappingDocument(YString("file"), <<YMapping, YString(""), Absent>>,
                    IncludeString(GlobTemplate), NoVariablesKey)

MainDocuments ==
    {FileDocument(IncludeString(GlobTemplate), NameWorld),
     FileDocument(IncludeSequence(<<GlobAllTxt>>), NoVariablesKey),
     FileDocument(IncludeAbsent, NameWorld),
     FileDocument(IncludeString(GlobUnclosed), NoVariablesKey),
     EmptyFilenameDocument,
     ScenarioDocument,
     DirectoryDocument(IncludeSequence(<<GlobAllTxt, GlobSubTxt>>), NameWorld),
     DirectoryDocument(IncludeAbsent, NoVariablesKey)}

MainInputs ==
    {Loaded(<<d>>) : d \in MainDocuments}
    \cup {Loaded(<<>>), [scan_error |-> TRUE, docs |-> <<>>]}

Templates ==
    {[is_dir |-> TRUE, readable |-> TRUE, tree |-> tree] : tree \in Trees}
    \cup {[is_dir |-> FALSE, readable |-> FALSE, tree |-> TreeOne],
          [is_dir |-> TRUE, readable |-> FALSE, tree |-> TreeOne]}

OutputSides == {[dirs |-> {}, files |-> {}], [dirs |-> {<<"out">>}, files |-> {}]}

\* what the user types at a prompt, as read_line returns it
Lines == {<<"\n">>, <<" ", "\n">>, <<"mine", "\n">>, <<" ", "mine", " ", "\n">>}

Logged(call, ok, path) == [call |-> call, ok |-> ok, path |-> path]

(***************************************************************************)
(* main() of utsusu-cli, from the check of the template path on            *)
(***************************************************************************)
InitMain ==
    /\ IdleConfig
    /\ IdleRender
    /\ yaml \in MainInputs
    /\ parsed = Pending
    /\ pc = "start"
    /\ template \in Templates
    /\ fs \in OutputSides
    /\ dirs_to_traverse = <<>>
    /\ filenames = <<>>
    /\ template_files_to_render = <<>>
    /\ user_output = [filename |-> None, directory |-> None]
    /\ user_variables_context = NoVariables
    /\ output_path = <<>>
    /\ next_file = 1
    /\ total_template_files_written = 0
    /\ report = None
    /\ exit_code = None
    /\ log = <<>>

template_config == parsed.config[1]

Exit(code) == pc' = "done" /\ exit_code' = Some(code)

CheckTemplatePath ==
    /\ pc = "start"
    /\ IF template.is_dir
       THEN pc' = "parse" /\ exit_code' = exit_code
       ELSE Exit(1)
    /\ UNCHANGED <<configVars, renderVars, parseVars, template, fs, dirs_to_traverse,
                   filenames, template_files_to_render, user_output,
                   user_variables_context, output_path, next_file,
                   total_template_files_written, report, log>>

\* a main() that goes on with an empty configuration when parsing fails
AfterParse_ignores_errors(result) ==
    IF result.tag = "Panic" THEN [pc |-> "done", exit_code |-> Some(101), parsed |-> result]
    ELSE IF result.tag = "Err" THEN [pc |-> "enumerate", exit_code |-> None, parsed |-> Ok(new)]
    ELSE [pc |-> "enumerate", exit_code |-> None, parsed |-> result]

\* where main() goes with the result of parse_config_from_file; a panic
\* ends the process with Rust's code 101
AfterParse(result) ==
    IF result.tag = "Panic" THEN [pc |-> "done", exit_code |-> Some(101), parsed |-> result]
    ELSE IF result.tag = "Err" THEN [pc |-> "done", exit_code |-> Some(-1), parsed |-> result]
    ELSE [pc |-> "enumerate", exit_code |-> None, parsed |-> result]

ParseConfigFromFile ==
    /\ pc = "parse"
    /\ LET result == parse_config_from_file(template.readable, yaml)
           after == AfterParse(result)
       IN  /\ parsed' = after.parsed
           /\ log' = Append(log, Logged("parse_config_from_file", result.tag = "Ok", <<>>))
           /\ pc' = after.pc
           /\ exit_code' = after.exit_code
    /\ UNCHANGED <<configVars, renderVars, yaml, template, fs, dirs_to_traverse,
                   filenames, template_files_to_render, user_output,
                   user_variables_context, output_path, next_file,
                   total_template_files_written, report>>

\* the call of get_all_template_filenames_from_directory: the root is pushed
StartEnumeration ==
    /\ pc = "enumerate"
    /\ dirs_to_traverse' = <<TemplateFilesPath>>
    /\ filenames' = <<>>
    /\ log' = Append(log, Logged("get_all_template_filenames_from_directory", TRUE,
                                 TemplateFilesPath))
    /\ pc' = "traverse"
    /\ UNCHANGED <<configVars, renderVars, parseVars, template, fs,
                   template_files_to_render, user_output, user_variables_context,
                   output_path, next_file, total_template_files_written, report,
                   exit_code>>

\* one turn of the while loop: a directory is popped and its entries visited
ReadDir ==
    /\ pc = "traverse"
    /\ dirs_to_traverse # <<>>
    /\ LET traverse_dir == dirs_to_traverse[Len(dirs_to_traverse)]
           rest == SubSeq(dirs_to_traverse, 1, Len(dirs_to_traverse) - 1)
       IN  /\ traverse_dir \in DOMAIN template.tree
           /\ \E order \in Orders(template.tree[traverse_dir]) :
                LET visited == visit_entries(order, traverse_dir, rest, filenames) IN
                /\ dirs_to_traverse' = visited.dirs
                /\ filenames' = visited.files
           /\ log' = Append(log, Logged("read_dir", TRUE, traverse_dir))
    /\ UNCHANGED <<configVars, renderVars, parseVars, pc, template, fs,
                   template_files_to_render, user_output, user_variables_context,
                   output_path, next_file, total_template_files_written, report,
                   exit_code>>

\* an enumeration that returns the paths collected so far when a read fails
ReadDirFails_keeps_partial ==
    /\ pc = "traverse"
    /\ dirs_to_traverse # <<>>
    /\ log' = Append(log, Logged("read_dir", FALSE, dirs_to_traverse[Len(dirs_to_traverse)]))
    /\ dirs_to_traverse' = <<>>
    /\ UNCHANGED <<configVars, renderVars, parseVars, pc, template, fs, filenames,
                   template_files_to_render, user_output, user_variables_context,
                   output_path, next_file, total_template_files_written, report,
                   exit_code>>

\* read_dir or one of its entries fails: `?` returns the error, the
\* collected paths are dropped, and main() exits
ReadDirFails ==
    /\ pc = "traverse"
    /\ dirs_to_traverse # <<>>
    /\ log' = Append(log, Logged("read_dir", FALSE, dirs_to_traverse[Len(dirs_to_traverse)]))
    /\ dirs_to_traverse' = <<>>
    /\ filenames' = <<>>
    /\ Exit(-2)
    /\ UNCHANGED <<configVars, renderVars, parseVars, template, fs,
                   template_files_to_render, user_output, user_variables_context,
                   output_path, next_file, total_template_files_written, report>>

\* a main() without the check for an empty selection
FilterFiles_allows_none ==
    /\ pc = "traverse"
    /\ dirs_to_traverse = <<>>
    /\ template_files_to_render' = files_to_render(template_config, filenames,
                                                    TemplateFilesPath)
    /\ pc' = "prompt_output"
    /\ UNCHANGED <<configVars, renderVars, parseVars, template, fs, dirs_to_traverse,
                   filenames, user_output, user_variables_context, output_path,
                   next_file, total_template_files_written, report, exit_code, log>>

\* the work-list is empty: Ok(filenames) is returned and main() filters it
FilterFiles ==
    /\ pc = "traverse"
    /\ dirs_to_traverse = <<>>
    /\ LET kept == files_to_render(template_config, filenames, TemplateFilesPath) IN
       /\ template_files_to_render' = kept
       /\ IF Len(kept) = 0
          THEN Exit(-5)
          ELSE pc' = "prompt_output" /\ exit_code' = exit_code
    /\ UNCHANGED <<configVars, renderVars, parseVars, template, fs, dirs_to_traverse,
                   filenames, user_output, user_variables_context, output_path,
                   next_file, total_template_files_written, report, log>>

PromptOutput ==
    /\ pc = "prompt_output"
    /\ \E line \in Lines :
         user_output' =
            IF get_output_type(template_config) = "File"
            THEN [filename |-> get_user_input(line), directory |-> None]
            ELSE [filename |-> None, directory |-> get_user_input(line)]
    /\ log' = Append(log, Logged("get_user_input", TRUE, <<>>))
    /\ pc' = "prompt_variables"
    /\ UNCHANGED <<configVars, renderVars, parseVars, template, fs, dirs_to_traverse,
                   filenames, template_files_to_render, user_variables_context,
                   output_path, next_file, total_template_files_written, report,
                   exit_code>>

PromptVariables ==
    /\ pc = "prompt_variables"
    /\ \E answers \in [DOMAIN template_config.variables -> Lines] :
         user_variables_context' = get_user_variable_choices(template_config, answers)
    /\ log' = Append(log, Logged("get_user_variable_choices", TRUE, <<>>))
    /\ pc' = "dispatch"
    /\ UNCHANGED <<configVars, renderVars, parseVars, template, fs, dirs_to_traverse,
                   filenames, template_files_to_render, user_output, output_path,
                   next_file, total_template_files_written, report, exit_code>>

\* a main() that renders the first of several matching files in File mode
TooManyFiles_takes_first ==
    /\ pc = "dispatch"
    /\ get_output_type(template_config) = "File"
    /\ Len(template_files_to_render) > 1
    /\ log' = Append(log, Logged("load_template_files_from_filenames", TRUE, <<>>))
    /\ pc' = "render_file"
    /\ UNCHANGED <<configVars, renderVars, parseVars, template, fs, dirs_to_traverse,
                   filenames, template_files_to_render, user_output,
                   user_variables_context, output_path, next_file,
                   total_template_files_written, report, exit_code>>

TooManyFiles ==
    /\ pc = "dispatch"
    /\ get_output_type(template_config) = "File"
    /\ Len(template_files_to_render) > 1
    /\ Exit(-3)
    /\ UNCHANGED <<configVars, renderVars, parseVars, template, fs, dirs_to_traverse,
                   filenames, template_files_to_render, user_output,
                   user_variables_context, output_path, next_file,
                   total_template_files_written, report, log>>

\* load_template_files_from_filenames, in either mode
LoadTemplateFiles ==
    /\ pc = "dispatch"
    /\ ~(get_output_type(template_config) = "File" /\ Len(template_files_to_render) > 1)
    /\ \E ok \in BOOLEAN :
         /\ log' = Append(log, Logged("load_template_files_from_filenames", ok, <<>>))
         /\ IF ~ok THEN Exit(-4)
            ELSE /\ pc' = IF get_output_type(template_config) = "File"
                          THEN "render_file" ELSE "create_dir"
                 /\ exit_code' = exit_code
    /\ UNCHANGED <<configVars, renderVars, parseVars, template, fs, dirs_to_traverse,
                   filenames, template_files_to_render, user_output,
                   user_variables_context, output_path, next_file,
                   total_template_files_written, report>>

\* File mode: the output path is resolved, the one file rendered
RenderFile ==
    /\ pc = "render_file"
    /\ output_path' = path_from(unwrap_or(option_or(user_output.filename,
                                                    get_output_filename(template_config)), ""))
    /\ override_context' = Some(user_variables_context)
    /\ final_context' = Some(render_single_file_context(template_config,
                                                        Some(user_variables_context)))
    /\ \E ok \in BOOLEAN :
         /\ log' = Append(log, Logged("render_single_file", ok, template_files_to_render[1]))
         /\ IF ~ok THEN Exit(-6)
            ELSE pc' = "write_file" /\ exit_code' = exit_code
    /\ UNCHANGED <<configVars, parseVars, template, fs, dirs_to_traverse, filenames,
                   template_files_to_render, user_output, user_variables_context,
                   next_file, total_template_files_written, report>>

\* a main() that ends with code 0 whether or not the write succeeded
WriteFile_reports_success ==
    /\ pc = "write_file"
    /\ \E fault \in BOOLEAN :
         LET ok == fs_write_possible(fs, output_path) /\ ~fault IN
         /\ log' = Append(log, Logged("write", ok, output_path))
         /\ fs' = IF ok THEN [fs EXCEPT !.files = @ \cup {output_path}] ELSE fs
         /\ report' = Some([written |-> 1, total |-> 1, path |-> output_path])
         /\ Exit(0)
    /\ UNCHANGED <<configVars, renderVars, parseVars, template, dirs_to_traverse,
                   filenames, template_files_to_render, user_output,
                   user_variables_context, output_path, next_file,
                   total_template_files_written>>

\* File mode: std::fs::write of the rendered text
WriteFile ==
    /\ pc = "write_file"
    /\ \E fault \in BOOLEAN :
         LET ok == fs_write_possible(fs, output_path) /\ ~fault IN
         /\ log' = Append(log, Logged("write", ok, output_path))
         /\ IF ok
            THEN /\ fs' = [fs EXCEPT !.files = @ \cup {output_path}]
                 /\ report' = Some([written |-> 1, total |-> 1, path |-> output_path])
                 /\ Exit(0)
            ELSE /\ UNCHANGED <<fs, report>>
                 /\ Exit(-7)
    /\ UNCHANGED <<configVars, renderVars, parseVars, template, dirs_to_traverse,
                   filenames, template_files_to_render, user_output,
                   user_variables_context, output_path, next_file,
                   total_template_files_written>>

\* a main() that goes on into the output directory when create_dir fails
CreateOutputDirectory_ignores_failure ==
    /\ pc = "create_dir"
    /\ LET output_directory_path ==
             path_from(unwrap_or(option_or(user_output.directory,
                                           get_output_directory(template_config)), ""))
       IN  /\ output_path' = output_directory_path
           /\ \E fault \in BOOLEAN :
                LET ok == fs_create_dir_possible(fs, output_directory_path) /\ ~fault IN
                /\ log' = Append(log, Logged("create_dir", ok, output_directory_path))
                /\ fs' = IF ok THEN [fs EXCEPT !.dirs = @ \cup {output_directory_path}]
                          ELSE fs
                /\ pc' = "next_file"
                /\ exit_code' = exit_code
    /\ next_file' = 1
    /\ total_template_files_written' = 0
    /\ UNCHANGED <<configVars, renderVars, parseVars, template, dirs_to_traverse,
                   filenames, template_files_to_render, user_output,
                   user_variables_context, report>>

\* Directory mode: std::fs::create_dir of the output directory
CreateOutputDirectory ==
    /\ pc = "create_dir"
    /\ LET output_directory_path ==
             path_from(unwrap_or(option_or(user_output.directory,
                                           get_output_directory(template_config)), ""))
       IN  /\ output_path' = output_directory_path
           /\ \E fault \in BOOLEAN :
                LET ok == fs_create_dir_possible(fs, output_directory_path) /\ ~fault IN
                /\ log' = Append(log, Logged("create_dir", ok, output_directory_path))
                /\ IF ok
                   THEN /\ fs' = [fs EXCEPT !.dirs = @ \cup {output_directory_path}]
                        /\ pc' = "next_file"
                        /\ exit_code' = exit_code
                   ELSE /\ fs' = fs
                        /\ Exit(-8)
    /\ next_file' = 1
    /\ total_template_files_written' = 0
    /\ UNCHANGED <<configVars, renderVars, parseVars, template, dirs_to_traverse,
                   filenames, template_files_to_render, user_output,
                   user_variables_context, report>>

\* Directory mode: the next file of the loop is rendered (a file outside
\* the template's files directory is passed over)
RenderDirectoryFile ==
    /\ pc = "next_file"
    /\ next_file <= Len(template_files_to_render)
    /\ LET template_source_file_path == template_files_to_render[next_file] IN
       IF strip_prefix(template_source_file_path, TemplateFilesPath) = None
       THEN /\ next_file' = next_file + 1
            /\ UNCHANGED <<renderVars, pc, exit_code, log>>
       ELSE /\ override_context' = Some(user_variables_context)
            /\ final_context' = Some(render_single_file_context(template_config,
                                                                Some(user_variables_context)))
            /\ next_file' = next_file
            /\ \E ok \in BOOLEAN :
                 /\ log' = Append(log, Logged("render_single_file", ok,
                                              template_source_file_path))
                 /\ IF ~ok THEN Exit(-6)
                    ELSE pc' = "write_next" /\ exit_code' = exit_code
    /\ UNCHANGED <<configVars, parseVars, template, fs, dirs_to_traverse, filenames,
                   template_files_to_render, user_output, user_variables_context,
                   output_path, total_template_files_written, report>>

\* a main() that goes on with the next file when a write fails
WriteDirectoryFile_skips_failures ==
    /\ pc = "write_next"
    /\ LET files_dir_relative_filename ==
             strip_prefix(template_files_to_render[next_file], TemplateFilesPath)[1]
           output_file_path == path_join(output_path, files_dir_relative_filename)
       IN  \E fault \in BOOLEAN :
             LET ok == fs_write_possible(fs, output_file_path) /\ ~fault IN
             /\ log' = Append(log, Logged("write", ok, output_file_path))
             /\ fs' = IF ok THEN [fs EXCEPT !.files = @ \cup {output_file_path}] ELSE fs
             /\ total_template_files_written' =
                   total_template_files_written + (IF ok THEN 1 ELSE 0)
             /\ next_file' = next_file + 1
             /\ pc' = "next_file"
             /\ exit_code' = exit_code
    /\ UNCHANGED <<configVars, renderVars, parseVars, template, dirs_to_traverse,
                   filenames, template_files_to_render, user_output,
                   user_variables_context, output_path, report>>

\* Directory mode: std::fs::write of the rendered text under the output directory
WriteDirectoryFile ==
    /\ pc = "write_next"
    /\ LET files_dir_relative_filename ==
             strip_prefix(template_files_to_render[next_file], TemplateFilesPath)[1]
           output_file_path == path_join(output_path, files_dir_relative_filename)
       IN  \E fault \in BOOLEAN :
             LET ok == fs_write_possible(fs, output_file_path) /\ ~fault IN
             /\ log' = Append(log, Logged("write", ok, output_file_path))
             /\ IF ok
                THEN /\ fs' = [fs EXCEPT !.files = @ \cup {output_file_path}]
                     /\ total_template_files_written' = total_template_files_written + 1
                     /\ next_file' = next_file + 1
                     /\ pc' = "next_file"
                     /\ exit_code' = exit_code
                ELSE /\ UNCHANGED <<fs, total_template_files_written, next_file>>
                     /\ Exit(-7)
    /\ UNCHANGED <<configVars, renderVars, parseVars, template, dirs_to_traverse,
                   filenames, template_files_to_render, user_output,
                   user_variables_context, output_path, report>>

\* Directory mode: the loop is over, the count is printed
FinishDirectory ==
    /\ pc = "next_file"
    /\ next_file > Len(template_files_to_render)
    /\ report' = Some([written |-> total_template_files_written,
                       total |-> Len(template_files_to_render), path |-> output_path])
    /\ Exit(0)
    /\ UNCHANGED <<configVars, renderVars, parseVars, template, fs, dirs_to_traverse,
                   filenames, template_files_to_render, user_output,
                   user_variables_context, output_path, next_file,
                   total_template_files_written, log>>

\* The Directory arm of main() is left out of NextMain: a configuration that
\* parse_config_from_file returns never has the Directory output type (see
\* MainConfigIsFileMode), so the arm is never entered from main()'s own start.
NextMain ==
    \/ CheckTemplatePath
    \/ ParseConfigFromFile
    \/ StartEnumeration
    \/ ReadDir
    \/ ReadDirFails
    \/ FilterFiles
    \/ PromptOutput
    \/ PromptVariables
    \/ TooManyFiles
    \/ LoadTemplateFiles
    \/ RenderFile
    \/ WriteFile

SpecMain == InitMain /\ [][NextMain]_vars

\* main() with both arms of its dispatch
NextMainBothModes ==
    \/ NextMain
    \/ CreateOutputDirectory
    \/ RenderDirectoryFile
    \/ WriteDirectoryFile
    \/ FinishDirectory

\* in main() the configuration never has the Directory output type, whatever
\* the document says, so none of the Directory actions is ever enabled
MainConfigIsFileMode ==
    /\ parsed.tag = "Ok" => get_output_type(template_config) = "File"
    /\ pc \notin {"create_dir", "next_file", "write_next"}

(***************************************************************************)
(* The same pipeline from the enumeration on, run on any configuration the *)
(* mutators can build (Directory mode included), as a caller of the        *)
(* library would reach it.                                                 *)
(***************************************************************************)
WithVariables(cfg, variables) == [cfg EXCEPT !.variables = variables]

DispatchConfigs ==
    {WithVariables(update_included_file_patterns(base, globset), variables) :
        base \in {new,
                  set_output_filename(new, "out.txt"),
                  set_output_type(new, "Directory"),
                  set_output_directory(set_output_type(new, "Directory"), "out")},
        globset \in {<<GlobTemplate>>, <<GlobAllTxt>>, <<GlobAllTxt, GlobSubTxt>>},
        variables \in {NoVariables, "name" :> "World"}}

InitDispatch ==
    /\ IdleConfig
    /\ IdleRender
    /\ yaml = Loaded(<<>>)
    /\ parsed \in {Ok(cfg) : cfg \in DispatchConfigs}
    /\ pc = "enumerate"
    /\ template \in {[is_dir |-> TRUE, readable |-> TRUE, tree |-> tree] : tree \in Trees}
    /\ fs \in OutputSides
    /\ dirs_to_traverse = <<>>
    /\ filenames = <<>>
    /\ template_files_to_render = <<>>
    /\ user_output = [filename |-> None, directory |-> None]
    /\ user_variables_context = NoVariables
    /\ output_path = <<>>
    /\ next_file = 1
    /\ total_template_files_written = 0
    /\ report = None
    /\ exit_code = None
    /\ log = <<>>

NextDispatch ==
    \/ StartEnumeration
    \/ ReadDir
    \/ ReadDirFails
    \/ FilterFiles
    \/ PromptOutput
    \/ PromptVariables
    \/ TooManyFiles
    \/ LoadTemplateFiles
    \/ RenderFile
    \/ WriteFile
    \/ CreateOutputDirectory
    \/ RenderDirectoryFile
    \/ WriteDirectoryFile
    \/ FinishDirectory

SpecDispatch == InitDispatch /\ [][NextDispatch]_vars

(***************************************************************************)
(* What the schema asks of a document, step by step, read off the          *)
(* document alone (the parser is not consulted).                           *)
(***************************************************************************)
RootViolated(d) == d.root.t # "Mapping"

TypeViolated(d) == ~(d.type.t = "String" /\ d.type.s \in {"file", "directory"})

OutputViolated(d) == d.output.t # "Mapping"

\* the output name of the document's mode (asked only of a valid `type`)
NameViolated(d) ==
    \/ d.type = YString("file") /\ d.filename.t # "String"
    \/ d.type = YString("directory") /\ d.directory.t # "String"

ItemViolated(item) == item.t # "String" \/ "[" \in Range(item.g)

IncludeViolated(d) ==
    \/ d.include.t \notin {"String", "Sequence"}
    \/ d.include.t = "String" /\ "[" \in Range(d.include.g)
    \/ d.include.t = "Sequence" /\ d.type = YString("file") /\ Len(d.items) > 1
    \/ d.include.t = "Sequence" /\ \E i \in 1..Len(d.items) : ItemViolated(d.items[i])

EntryViolated(e) == e.name.t # "String" \/ e.default.t \notin ScalarTags

VariablesViolated(d) ==
    /\ d.variables.t # "Absent"
    /\ \/ d.variables.t # "Mapping"
       \/ \E i \in 1..Len(d.entries) : EntryViolated(d.entries[i])

Violated(d, step) ==
    CASE step = 1 -> RootViolated(d)
      [] step = 2 -> TypeViolated(d)
      [] step = 3 -> OutputViolated(d)
      [] step = 4 -> NameViolated(d)
      [] step = 5 -> IncludeViolated(d)
      [] step = 6 -> VariablesViolated(d)

Steps == 1..6

ValidDocument(d) == \A step \in Steps : ~Violated(d, step)

\* the step a ConfigParseError belongs to
ErrorStep(e) ==
    CASE e = "ConfigMustBeAMapping" -> 1
      [] e \in {"NoOutputType", "InvalidOutputType"} -> 2
      [] e \in {"NoOutputConfig", "OutputConfigMustBeAMapping"} -> 3
      [] e \in {"NoOutputFilename", "InvalidOutputFilename",
                "NoOutputDirectory", "InvalidOutputDirectory"} -> 4
      [] e \in {"NoIncludedFiles", "InvalidIncludedFiles", "TooManyIncludedFileGlobs",
                "IncludedFileGlobMustBeString", "IncludedFileGlobParseError"} -> 5
      [] e \in {"VariablesMustBeAMapping", "VariableNameMustBeAString",
                "VariableDefaultMustBeAScalar"} -> 6
      [] OTHER -> 0

\* the parser has returned from a text that holds at least one document
Returned == parsed # Pending /\ ~yaml.scan_error /\ Len(yaml.docs) > 0
TheDocument == yaml.docs[1]
TheConfig == parsed.config[1]

(***************************************************************************)
(* C1: for every document the parser accepts, the returned configuration   *)
(* has the output type the document names under `type`, and the output     *)
(* name of that mode (filename in File mode, directory in Directory mode)  *)
(* is the string the document gives under `output`.                        *)
(***************************************************************************)
C1_ConfigReflectsDocument ==
    (Returned /\ parsed.tag = "Ok") =>
        /\ TheDocument.type = YString("file") =>
              /\ get_output_type(TheConfig) = "File"
              /\ get_output_filename(TheConfig) = Some(TheDocument.filename.s)
        /\ TheDocument.type = YString("directory") =>
              /\ get_output_type(TheConfig) = "Directory"
              /\ get_output_directory(TheConfig) = Some(TheDocument.directory.s)

(***************************************************************************)
(* C4: the steps are checked in the order root, type, output, output       *)
(* name, include, variables: a document that violates some step is         *)
(* rejected with an error of the earliest step it violates.                *)
(***************************************************************************)
C4_EarliestViolationReported ==
    (Returned /\ ~ValidDocument(TheDocument)) =>
        /\ parsed.tag = "Err"
        /\ ErrorStep(parsed.error) \in Steps
        /\ Violated(TheDocument, ErrorStep(parsed.error))
        /\ \A earlier \in Steps :
              earlier < ErrorStep(parsed.error) => ~Violated(TheDocument, earlier)

C4_Witness ==
    /\ Returned
    /\ OutputViolated(TheDocument)
    /\ IncludeViolated(TheDocument)
    /\ VariablesViolated(TheDocument)
    /\ ~TypeViolated(TheDocument)
    /\ parsed = Err("NoOutputConfig")

(***************************************************************************)
(* C5: a mapping document that lacks exactly one required key and is       *)
(* valid once that key is supplied is rejected with the error of that key  *)
(* (type: NoOutputType, output: NoOutputConfig, output.filename in File    *)
(* mode: NoOutputFilename, output.directory in Directory mode:             *)
(* NoOutputDirectory, include: NoIncludedFiles), and the caller gets no    *)
(* configuration.                                                          *)
(***************************************************************************)
WithOutput(d, out) == [d EXCEPT !.output = out[1], !.filename = out[2], !.directory = out[3]]

LacksOnlyType(d) ==
    /\ d.type = Absent
    /\ \E t \in {"file", "directory"} : ValidDocument([d EXCEPT !.type = YString(t)])

LacksOnlyOutput(d) ==
    /\ d.output = Absent /\ d.filename = Absent /\ d.directory = Absent
    /\ ValidDocument(WithOutput(d, FileOutput)) \/ ValidDocument(WithOutput(d, DirectoryOutput))

LacksOnlyFilename(d) ==
    /\ d.type = YString("file") /\ d.filename = Absent
    /\ ValidDocument([d EXCEPT !.filename = YString("out.txt")])

LacksOnlyDirectory(d) ==
    /\ d.type = YString("directory") /\ d.directory = Absent
    /\ ValidDocument([d EXCEPT !.directory = YString("out")])

LacksOnlyInclude(d) ==
    /\ d.include.t = "Absent"
    /\ ValidDocument([d EXCEPT !.include = GlobNode("String", GlobAllTxt)])

C5_MissingKeyError ==
    Returned =>
        /\ LacksOnlyType(TheDocument) => parsed = Err("NoOutputType")
        /\ LacksOnlyOutput(TheDocument) => parsed = Err("NoOutputConfig")
        /\ LacksOnlyFilename(TheDocument) => parsed = Err("NoOutputFilename")
        /\ LacksOnlyDirectory(TheDocument) => parsed = Err("NoOutputDirectory")
        /\ LacksOnlyInclude(TheDocument) => parsed = Err("NoIncludedFiles")

C5_Witness ==
    /\ Returned
    /\ LacksOnlyDirectory(TheDocument)
    /\ TheDocument.filename = YString("out.txt")
    /\ parsed.tag = "Err" /\ parsed.config = None

(***************************************************************************)
(* C6: on every input that loads and whose root is not a mapping (a        *)
(* scalar, a sequence, or no document at all) the parser returns           *)
(* ConfigMustBeAMapping; it always returns a configuration or an error     *)
(* and never aborts.                                                       *)
(***************************************************************************)
C6_TotalOnLoadableInput ==
    (parsed # Pending /\ ~yaml.scan_error) =>
        /\ parsed.tag \in {"Ok", "Err"}
        /\ (Len(yaml.docs) = 0 \/ RootViolated(yaml.docs[1])) =>
              parsed = Err("ConfigMustBeAMapping")

(***************************************************************************)
(* C7: in a File-mode document (type `file`, with its output filename)     *)
(* whose `include` is a sequence, the parser returns                       *)
(* TooManyIncludedFileGlobs exactly when the sequence has more than one    *)
(* entry, whatever the entries are; File mode accepts a single glob string *)
(* and a one-entry sequence, and Directory mode accepts a sequence of      *)
(* valid glob strings of any length.                                       *)
(***************************************************************************)
ReachesInclude(d) ==
    ~RootViolated(d) /\ ~TypeViolated(d) /\ ~OutputViolated(d) /\ ~NameViolated(d)

AllItemsValid(d) == \A i \in 1..Len(d.items) : ~ItemViolated(d.items[i])

C7_TooManyGlobsInFileMode ==
    (Returned /\ ReachesInclude(TheDocument)) =>
        /\ (TheDocument.type = YString("file") /\ TheDocument.include.t = "Sequence") =>
              (parsed = Err("TooManyIncludedFileGlobs") <=> Len(TheDocument.items) > 1)
        /\ ( /\ TheDocument.type = YString("file")
             /\ ~VariablesViolated(TheDocument)
             /\ \/ TheDocument.include.t = "String" /\ glob_compiles(TheDocument.include.g)
                \/ /\ TheDocument.include.t = "Sequence"
                   /\ Len(TheDocument.items) = 1
                   /\ AllItemsValid(TheDocument) )
              => parsed.tag = "Ok"
        /\ ( /\ TheDocument.type = YString("directory")
             /\ ~VariablesViolated(TheDocument)
             /\ TheDocument.include.t = "Sequence"
             /\ AllItemsValid(TheDocument) )
              => parsed.tag = "Ok"

C7_Witness ==
    /\ Returned
    /\ TheDocument.type = YString("file")
    /\ TheDocument.include.t = "Sequence"
    /\ Len(TheDocument.items) = 2
    /\ ItemViolated(TheDocument.items[1])
    /\ ~VariablesViolated(TheDocument)
    /\ parsed = Err("TooManyIncludedFileGlobs")

(***************************************************************************)
(* C9: for every accepted document the variables of the configuration are  *)
(* exactly the names declared under `variables`, each with the text of its *)
(* scalar default (null: empty, boolean / integer / float: their text,     *)
(* string: unchanged); adding a name again replaces its default; a         *)
(* document without `variables` is accepted with no variables; the first   *)
(* entry with a non-string name gives VariableNameMustBeAString and the    *)
(* first with a nested default gives VariableDefaultMustBeAScalar.         *)
(***************************************************************************)
\* the text each default of the inputs is declared to have
DefaultText(default) ==
    CASE default = YNull -> ""
      [] default = YBoolean(TRUE) -> "true"
      [] default = YBoolean(FALSE) -> "false"
      [] default = YInteger(42) -> "42"
      [] default = YInteger(-7) -> "-7"
      [] default = YInteger(0) -> "0"
      [] default = YFloat(15) -> "1.5"
      [] default = YFloat(10) -> "1"
      [] default = YString("x") -> "x"
      [] default = YString("") -> ""

ReachesVariables(d) == ReachesInclude(d) /\ ~IncludeViolated(d)

FirstViolatedEntry(entries) ==
    CHOOSE i \in 1..Len(entries) :
        /\ EntryViolated(entries[i])
        /\ \A j \in 1..(i - 1) : ~EntryViolated(entries[j])

EntryError(e) ==
    IF e.name.t # "String" THEN "VariableNameMustBeAString"
    ELSE "VariableDefaultMustBeAScalar"

DeclaredNames(entries) == {entries[i].name.s : i \in 1..Len(entries)}

C9_VariablesOfDocument ==
    (Returned /\ ReachesVariables(TheDocument)) =>
        /\ TheDocument.variables = Absent =>
              parsed.tag = "Ok" /\ DOMAIN TheConfig.variables = {}
        /\ (TheDocument.variables = YMapping /\ ~VariablesViolated(TheDocument)) =>
              /\ parsed.tag = "Ok"
              /\ DOMAIN TheConfig.variables = DeclaredNames(TheDocument.entries)
              /\ \A i \in 1..Len(TheDocument.entries) :
                    TheConfig.variables[TheDocument.entries[i].name.s]
                        = DefaultText(TheDocument.entries[i].default)
              /\ \A name \in DeclaredNames(TheDocument.entries) \cup {"extra"} :
                    LET again == add_variable(add_variable(TheConfig, name, "first"),
                                              name, "last")
                    IN  /\ again.variables[name] = "last"
                        /\ DOMAIN again.variables = DOMAIN TheConfig.variables \cup {name}
        /\ (TheDocument.variables = YMapping /\ VariablesViolated(TheDocument)) =>
              parsed = Err(EntryError(
                  TheDocument.entries[FirstViolatedEntry(TheDocument.entries)]))

C9_Witness ==
    /\ Returned
    /\ parsed.tag = "Ok"
    /\ Len(TheDocument.entries) = 2
    /\ TheDocument.entries[1] = Entry(YString("lang"), YNull)
    /\ TheDocument.entries[2] = Entry(YString("name"), YFloat(15))
    /\ TheConfig.variables["lang"] = ""
    /\ TheConfig.variables["name"] = "1.5"

(***************************************************************************)
(* C2: in every state of a TemplateConfig, from new() through any sequence *)
(* of mutator calls and in every configuration the parser returns, exactly *)
(* one of output_filename / output_directory is populated, the one that    *)
(* matches output_type.                                                    *)
(***************************************************************************)
C2_ExactlyOneOutputName ==
    /\ config.output_type = "File" =>
          config.output_filename # None /\ config.output_directory = None
    /\ config.output_type = "Directory" =>
          config.output_directory # None /\ config.output_filename = None

(***************************************************************************)
(* C10: the context render_single_file renders with holds every overridden *)
(* name with its override value, every declared name that is not           *)
(* overridden with its default, every override name the configuration does *)
(* not declare with its override value, and no other name.                 *)
(***************************************************************************)
Overrides == IF override_context = None THEN NoVariables ELSE override_context[1]

C10_OverridePrecedence ==
    final_context # None =>
        LET bindings == final_context[1] IN
        /\ DOMAIN bindings = DOMAIN config.variables \cup DOMAIN Overrides
        /\ \A name \in DOMAIN Overrides : bindings[name] = Overrides[name]
        /\ \A name \in DOMAIN config.variables \ DOMAIN Overrides :
              bindings[name] = config.variables[name]

C10_Witness ==
    /\ final_context # None
    /\ config.variables = ("name" :> "x") @@ ("lang" :> "y")
    /\ Overrides = ("name" :> "o") @@ ("extra" :> "o")
    /\ final_context[1] = ("name" :> "o") @@ ("lang" :> "y") @@ ("extra" :> "o")

(***************************************************************************)
(* C3: the Directory-mode scenario.  Template files a.txt, b.txt and       *)
(* sub/c.txt, a document of type `directory` with include                  *)
(* ["*.txt", "sub/*.txt"] and output directory out, which does not exist   *)
(* yet, the default output name kept at the prompt, every read, load and   *)
(* render succeeding: the run ends with code 0, out/a.txt, out/b.txt and   *)
(* out/sub/c.txt exist and the count reported is 3 out of 3.               *)
(***************************************************************************)
Failed(calls) == \E i \in 1..Len(log) : log[i].call \in calls /\ ~log[i].ok

ScenarioRun ==
    /\ yaml = Loaded(<<ScenarioDocument>>)
    /\ template = [is_dir |-> TRUE, readable |-> TRUE, tree |-> TreeThree]
    /\ \/ <<"out">> \notin fs.dirs
       \/ \E i \in 1..Len(log) : log[i] = Logged("create_dir", TRUE, <<"out">>)
    /\ user_output = [filename |-> None, directory |-> None]
    /\ ~Failed({"read_dir", "load_template_files_from_filenames", "render_single_file"})

C3_DirectoryScenario ==
    (ScenarioRun /\ pc = "done") =>
        /\ exit_code = Some(0)
        /\ {<<"out", "/", "a", ".txt">>, <<"out", "/", "b", ".txt">>,
            <<"out", "/", "sub", "/", "c", ".txt">>} \subseteq fs.files
        /\ report = Some([written |-> 3, total |-> 3, path |-> <<"out">>])

(***************************************************************************)
(* C8: a document that lacks only `include` fails parsing with             *)
(* NoIncludedFiles, and main() then ends with the parse failure's code     *)
(* having enumerated, prompted, loaded and written nothing.                *)
(***************************************************************************)
MissingIncludeRun ==
    /\ ~yaml.scan_error
    /\ Len(yaml.docs) > 0
    /\ LacksOnlyInclude(yaml.docs[1])
    /\ template.readable
    /\ parsed # Pending

C8_MissingIncludeEndsRun ==
    MissingIncludeRun =>
        /\ parsed = Err("NoIncludedFiles")
        /\ pc = "done"
        /\ exit_code = Some(-1)
        /\ log = <<Logged("parse_config_from_file", FALSE, <<>>)>>
        /\ fs.files = {}
        /\ filenames = <<>> /\ dirs_to_traverse = <<>>
        /\ user_output = [filename |-> None, directory |-> None]
        /\ final_context = None

C8_Witness ==
    /\ MissingIncludeRun
    /\ yaml.docs[1].type = YString("directory")
    /\ pc = "done"
    /\ exit_code = Some(-1)

(***************************************************************************)
(* C11: in File mode, when the filter keeps more than one of the           *)
(* enumerated files, the run ends with the too-many-files code, which no   *)
(* parse error gives, and on that run no template is loaded or rendered    *)
(* and no output file is written.                                          *)
(***************************************************************************)
ConfigParseErrors ==
    {"YamlParseError", "ConfigMustBeAMapping", "NoOutputConfig",
     "OutputConfigMustBeAMapping", "NoOutputType", "InvalidOutputType",
     "NoOutputFilename", "InvalidOutputFilename", "NoOutputDirectory",
     "InvalidOutputDirectory", "NoIncludedFiles", "InvalidIncludedFiles",
     "TooManyIncludedFileGlobs", "IncludedFileGlobMustBeString",
     "IncludedFileGlobParseError", "VariablesMustBeAMapping",
     "VariableNameMustBeAString", "VariableDefaultMustBeAScalar"}

Called(calls) == \E i \in 1..Len(log) : log[i].call \in calls

\* the enumeration has returned its files and main() has filtered them
Filtered ==
    /\ parsed.tag = "Ok"
    /\ ~Failed({"read_dir"})
    /\ pc \notin {"idle", "start", "parse", "enumerate", "traverse"}

C11_TooManyMatchingFiles ==
    (/\ Filtered
     /\ get_output_type(template_config) = "File"
     /\ Len(template_files_to_render) > 1) =>
        /\ ~Called({"load_template_files_from_filenames", "render_single_file",
                    "create_dir", "write"})
        /\ final_context = None
        /\ fs.files = {}
        /\ pc \in {"prompt_output", "prompt_variables", "dispatch", "done"}
        /\ pc = "done" =>
              /\ exit_code = Some(-3)
              /\ \A e \in ConfigParseErrors : exit_code # AfterParse(Err(e)).exit_code

C11_Witness ==
    /\ yaml = Loaded(<<FileDocument(IncludeSequence(<<GlobAllTxt>>), NoVariablesKey)>>)
    /\ template.tree = TreeTwo
    /\ Len(template_files_to_render) = 2
    /\ pc = "done"
    /\ exit_code = Some(-3)

(***************************************************************************)
(* C12: in File mode and in Directory mode alike, when the filter keeps    *)
(* none of the enumerated files the run ends with the no-matching-files    *)
(* code, and on that run no template is loaded, no output directory is     *)
(* created and nothing is written.                                         *)
(***************************************************************************)
\* the enumeration is over and none of its files is included
NoCandidates ==
    /\ parsed.tag = "Ok"
    /\ ~Failed({"read_dir"})
    /\ Called({"get_all_template_filenames_from_directory"})
    /\ dirs_to_traverse = <<>>
    /\ files_to_render(template_config, filenames, TemplateFilesPath) = <<>>

C12_NoMatchingFiles ==
    NoCandidates =>
        /\ pc \in {"traverse", "done"}
        /\ pc = "done" => exit_code = Some(-5)
        /\ ~Called({"get_user_input", "get_user_variable_choices",
                    "load_template_files_from_filenames", "render_single_file",
                    "create_dir", "write"})
        /\ fs \in OutputSides
        /\ fs.files = {}
        /\ report = None

C12_Witness ==
    /\ NoCandidates
    /\ get_output_type(template_config) = "Directory"
    /\ Len(filenames) = 3
    /\ pc = "done"
    /\ exit_code = Some(-5)

(***************************************************************************)
(* C13: File mode is all-or-nothing.  Whatever the outcomes of load,       *)
(* render and write, a File-mode run writes at most one file, writes it    *)
(* only after a successful load and a successful render, ends with code 0  *)
(* exactly when that write succeeded, and a failed load or render ends the *)
(* run with nothing written.                                               *)
(***************************************************************************)
Calls(calls, ok) == {i \in 1..Len(log) : log[i].call \in calls /\ log[i].ok = ok}

FileModeRun == parsed.tag = "Ok" /\ get_output_type(template_config) = "File"

C13_FileModeAllOrNothing ==
    FileModeRun =>
        /\ Cardinality(Calls({"write"}, TRUE) \cup Calls({"write"}, FALSE)) <= 1
        /\ fs.files \subseteq {log[i].path : i \in Calls({"write"}, TRUE)}
        /\ Cardinality(fs.files) <= 1
        /\ \A i \in 1..Len(log) :
              log[i].call = "write" =>
                 \E j, k \in 1..(i - 1) :
                    /\ j < k
                    /\ log[j] = Logged("load_template_files_from_filenames", TRUE, <<>>)
                    /\ log[k].call = "render_single_file" /\ log[k].ok
        /\ pc = "done" => (exit_code = Some(0) <=> Calls({"write"}, TRUE) # {})
        /\ Failed({"load_template_files_from_filenames", "render_single_file"}) =>
              /\ pc = "done"
              /\ exit_code \in {Some(-4), Some(-6)}
              /\ ~Called({"write"})
              /\ fs.files = {}

C13_Witness ==
    /\ FileModeRun
    /\ pc = "done"
    /\ exit_code = Some(0)
    /\ fs.files = {<<"out.txt">>}
    /\ Calls({"load_template_files_from_filenames", "render_single_file", "write"}, TRUE)
           = {Len(log) - 2, Len(log) - 1, Len(log)}

(***************************************************************************)
(* C14: Directory mode is fail-fast and not transactional.  The candidates *)
(* are rendered and written one at a time in their order; the first failed *)
(* render or write ends the run at once with its code, so that no later    *)
(* candidate is rendered or written; the files written before the failure  *)
(* stay in the output directory.                                           *)
(***************************************************************************)
DirectoryModeRun == parsed.tag = "Ok" /\ get_output_type(template_config) = "Directory"

WrittenBefore(i) == Cardinality({j \in Calls({"write"}, TRUE) : j < i})

C14_DirectoryFailFast ==
    DirectoryModeRun =>
        /\ \A i \in Calls({"render_single_file", "write"}, FALSE) :
              /\ i = Len(log)
              /\ pc = "done"
              /\ exit_code = IF log[i].call = "write" THEN Some(-7) ELSE Some(-6)
              /\ report = None
        /\ \A i \in 1..Len(log) :
              /\ log[i].call = "render_single_file" =>
                    /\ log[i].path = template_files_to_render[WrittenBefore(i) + 1]
                    /\ i > 1 /\ log[i - 1].call \in {"create_dir", "write"} /\ log[i - 1].ok
              /\ log[i].call = "write" =>
                    /\ log[i - 1] = Logged("render_single_file", TRUE,
                                           template_files_to_render[WrittenBefore(i) + 1])
                    /\ log[i].path =
                          path_join(output_path,
                                    strip_prefix(template_files_to_render[WrittenBefore(i) + 1],
                                                 TemplateFilesPath)[1])
        /\ {log[i].path : i \in Calls({"write"}, TRUE)} \subseteq fs.files
        /\ total_template_files_written = Cardinality(Calls({"write"}, TRUE))

C14_Witness ==
    /\ DirectoryModeRun
    /\ Len(template_files_to_render) = 3
    /\ pc = "done"
    /\ exit_code = Some(-6)
    /\ Cardinality(Calls({"write"}, TRUE)) = 1
    /\ Cardinality(fs.files) = 1
    /\ Cardinality(Calls({"render_single_file"}, TRUE)) = 1

(***************************************************************************)
(* C15: when a Directory-mode run aborts on a failed render or write, the  *)
(* number of files written before the abort is reported, and the number    *)
(* reported is the number of files the run wrote.                          *)
(***************************************************************************)
DirectoryRunAborted ==
    /\ DirectoryModeRun
    /\ pc = "done"
    /\ Calls({"render_single_file", "write"}, FALSE) # {}

exit_codes ==
    ("config unreadable" :> -1)
    @@ ("config invalid" :> -1)
    @@ ("file enumeration failed" :> -2)
    @@ ("too many files for File mode" :> -3)
    @@ ("load failed" :> -4)
    @@ ("no matching files" :> -5)
    @@ ("render failed" :> -6)
    @@ ("write failed" :> -7)
    @@ ("output directory creation failed" :> -8)

FailedCallClass(call) ==
    CASE call = "read_dir" -> "file enumeration failed"
      [] call = "load_template_files_from_filenames" -> "load failed"
      [] call = "render_single_file" -> "render failed"
      [] call = "write" -> "write failed"
      [] call = "create_dir" -> "output directory creation failed"

FailureClass ==
    IF pc # "done" \/ exit_code = Some(0) THEN "none"
    ELSE IF parsed.tag = "Pending" THEN "template missing"
    ELSE IF parsed.tag = "Panic" THEN "panic"
    ELSE IF parsed = Err("FileReadError") THEN "config unreadable"
    ELSE IF parsed.tag = "Err" THEN "config invalid"
    ELSE IF ~log[Len(log)].ok THEN FailedCallClass(log[Len(log)].call)
    ELSE IF template_files_to_render = <<>> THEN "no matching files"
    ELSE "too many files for File mode"

\* a run that ends in one of the nine classes ends with the code of its class
ExitCodeOfClass ==
    FailureClass \in DOMAIN exit_codes => exit_code = Some(exit_codes[FailureClass])

(***************************************************************************)
(* C16: the exit code identifies the class of failure.  The nine classes   *)
(* (config unreadable, config invalid, file enumeration failed, too many   *)
(* files for File mode, load failed, render failed, write failed, output   *)
(* directory creation failed, no matching files) end with codes that are   *)
(* pairwise distinct, and none of them is 0.                               *)
(***************************************************************************)
C16_ExitCodeIdentifiesClass ==
    FailureClass \in DOMAIN exit_codes =>
        /\ exit_code = Some(exit_codes[FailureClass])
        /\ exit_code # Some(0)
        /\ \A other \in DOMAIN exit_codes \ {FailureClass} :
              exit_code # Some(exit_codes[other])

(***************************************************************************)
(* C17: in Directory mode the resolved output directory is created before  *)
(* any candidate is rendered or written; when the creation fails (the      *)
(* directory exists already, say) the run ends with the directory-creation *)
(* code, no candidate is rendered, no file is written, and the output side *)
(* is left as it was.                                                      *)
(***************************************************************************)
C17_DirectoryCreatedFirst ==
    DirectoryModeRun =>
        /\ Cardinality(Calls({"create_dir"}, TRUE) \cup Calls({"create_dir"}, FALSE)) <= 1
        /\ \A i \in 1..Len(log) :
              log[i].call \in {"render_single_file", "write"} =>
                 \E j \in 1..(i - 1) : log[j] = Logged("create_dir", TRUE, output_path)
        /\ \A i \in Calls({"create_dir"}, TRUE) :
              /\ log[i].path \in fs.dirs
              /\ log[i].path = path_from(unwrap_or(option_or(user_output.directory,
                                    get_output_directory(template_config)), ""))
        /\ \A i \in Calls({"create_dir"}, FALSE) :
              /\ i = Len(log)
              /\ pc = "done"
              /\ exit_code = Some(-8)
              /\ ~Called({"render_single_file", "write"})
              /\ final_context = None
              /\ fs \in OutputSides

C17_Witness ==
    /\ DirectoryModeRun
    /\ fs = [dirs |-> {<<"out">>}, files |-> {}]
    /\ pc = "done"
    /\ exit_code = Some(-8)
    /\ Len(template_files_to_render) = 3
    /\ log[Len(log)] = Logged("create_dir", FALSE, <<"out">>)

(***************************************************************************)
(* Two parses of one text: the caller keeps the configuration of the first *)
(* parse in `config` and queries it, the second parse is in `parsed`.      *)
(***************************************************************************)
\* the vectors get_variable_items can return: self.variables.iter() visits
\* the pairs of the HashMap in an order the map's contents do not fix
get_variable_items(self) ==
    {[i \in 1..Cardinality(DOMAIN self.variables) |-> <<order[i], self.variables[order[i]]>>] :
        order \in Orders(DOMAIN self.variables)}

QueryPaths == {<<"a", ".txt">>, <<"sub", "/", "c", ".txt">>, <<"notes", ".md">>}

InitTwice ==
    /\ yaml \in {Loaded(<<d>>) : d \in VariableDocuments \cup ConfigDocuments}
    /\ parsed = Pending
    /\ IdleConfig
    /\ IdleRender
    /\ IdleMain

\* the first parse; its configuration is the one the caller goes on to query
ParseFirst ==
    /\ last_call.op = "new"
    /\ LET result == parse_config_from_yaml_string(yaml) IN
       /\ result.tag = "Ok"
       /\ config' = result.config[1]
       /\ last_call' = Call("parse_config_from_yaml_string", "", None)
    /\ OnlyConfig

GetVariableItems ==
    /\ last_call.op = "parse_config_from_yaml_string"
    /\ \E items \in get_variable_items(config) :
         last_call' = Call("get_variable_items", "", items)
    /\ config' = config
    /\ OnlyConfig

NextTwice ==
    \/ ParseFirst
    \/ GetVariableItems
    \/ ParseConfigFromYamlString

SpecTwice == InitTwice /\ [][NextTwice]_vars

(***************************************************************************)
(* C18: parse is deterministic.  Two parses of one valid text give         *)
(* configurations on which get_output_type, get_output_filename,           *)
(* get_output_directory, should_include_file (for every path),             *)
(* get_render_context and get_variable_items return the same results, the  *)
(* order of the pairs of get_variable_items included.                      *)
(***************************************************************************)
BothParsed == last_call.op = "get_variable_items" /\ parsed.tag = "Ok"

C18_ParseDeterministic ==
    BothParsed =>
        LET second == parsed.config[1] IN
        /\ get_output_type(second) = get_output_type(config)
        /\ get_output_filename(second) = get_output_filename(config)
        /\ get_output_directory(second) = get_output_directory(config)
        /\ \A path \in QueryPaths :
              should_include_file(second, path) = should_include_file(config, path)
        /\ get_render_context(second) = get_render_context(config)
        /\ \A items \in get_variable_items(second) : items = last_call.returned

\* what holds of the two parses: everything but the order of the pairs
QueriesAgreeUpToOrder ==
    BothParsed =>
        LET second == parsed.config[1] IN
        /\ second = config
        /\ \A items \in get_variable_items(second) :
              Range(items) = Range(last_call.returned)

(***************************************************************************)
(* C19: the destination written to is the name given at the output prompt  *)
(* when the answer is not blank, and otherwise the name the document       *)
(* declares for its mode (output.filename of a `file` document,            *)
(* output.directory of a `directory` document); a blank answer leaves the  *)
(* configured name in place, and the destination is never the empty path   *)
(* when the configuration was parsed.                                      *)
(***************************************************************************)
\* main() has resolved the path it writes to
DestinationResolved ==
    /\ parsed.tag = "Ok"
    /\ Called({"render_single_file", "create_dir"})

ConfiguredName(d) ==
    IF d.type = YString("file") THEN d.filename.s ELSE d.directory.s

C19_DestinationResolution ==
    DestinationResolved =>
        LET answer == option_or(user_output.filename, user_output.directory) IN
        /\ output_path = path_from(IF answer # None THEN answer[1]
                                   ELSE ConfiguredName(yaml.docs[1]))
        /\ output_path # <<>>

\* what holds of the destination: the answer, else the configuration's
\* name for the configuration's mode, else the empty path
DestinationOfConfig ==
    DestinationResolved =>
        output_path =
            IF get_output_type(template_config) = "File"
            THEN path_from(unwrap_or(option_or(user_output.filename,
                                               get_output_filename(template_config)), ""))
            ELSE path_from(unwrap_or(option_or(user_output.directory,
                                               get_output_directory(template_config)), ""))

(***************************************************************************)
(* main() with the loop of the enumeration always taking its next turn     *)
(***************************************************************************)
SpecMainFair == SpecMain /\ WF_vars(ReadDir)

(***************************************************************************)
(* C20: on a finite tree whose directory reads all succeed,                *)
(* get_all_template_filenames_from_directory terminates, reads every       *)
(* directory under the root exactly once, and returns every entry that is  *)
(* not a directory exactly once, at any depth, and no directory; the set   *)
(* returned is the same whatever the order of the traversal.               *)
(***************************************************************************)
FilesUnder(tree) ==
    {path_join(dir, entry.name) : <<dir, entry>> \in
        {<<d, e>> \in (DOMAIN tree) \X (UNION {tree[d] : d \in DOMAIN tree}) :
            e \in tree[d] /\ ~e.is_dir}}

ReadsOf(dir) == {i \in 1..Len(log) : log[i].call = "read_dir" /\ log[i].path = dir}

\* the work-list is empty and no read failed: Ok(filenames) is returned
EnumerationReturned ==
    /\ Called({"get_all_template_filenames_from_directory"})
    /\ dirs_to_traverse = <<>>
    /\ ~Failed({"read_dir"})

EnumerationComplete ==
    /\ \A dir \in DOMAIN template.tree : Cardinality(ReadsOf(dir)) = 1
    /\ \A i \in 1..Len(log) : log[i].call = "read_dir" => log[i].path \in DOMAIN template.tree
    /\ Range(filenames) = FilesUnder(template.tree)
    /\ Len(filenames) = Cardinality(FilesUnder(template.tree))
    /\ Range(filenames) \cap DOMAIN template.tree = {}

C20_EnumerationTotal ==
    /\ [](EnumerationReturned => EnumerationComplete)
    /\ [](\A dir \in DOMAIN template.tree : Cardinality(ReadsOf(dir)) <= 1)
    /\ (pc = "traverse") ~> (EnumerationReturned \/ Failed({"read_dir"}))

C20_Witness ==
    /\ EnumerationReturned
    /\ template.tree = TreeDeep
    /\ Len(log) >= 5
    /\ Range(filenames) = {<<"files", "/", "sub", "/", "c", ".txt">>,
                           <<"files", "/", "sub", "/", "deep", "/", "d", ".txt">>}

(***************************************************************************)
(* C21: when the read of a directory or of one of its entries fails during *)
(* the enumeration, get_all_template_filenames_from_directory returns the  *)
(* error and none of the paths collected so far, and main() ends with the  *)
(* file-enumeration code without filtering, prompting, loading, rendering  *)
(* or writing anything.                                                    *)
(***************************************************************************)
C21_EnumerationFailsFast ==
    Failed({"read_dir"}) =>
        /\ Calls({"read_dir"}, FALSE) = {Len(log)}
        /\ pc = "done"
        /\ exit_code = Some(-2)
        /\ filenames = <<>>
        /\ dirs_to_traverse = <<>>
        /\ template_files_to_render = <<>>
        /\ ~Called({"get_user_input", "get_user_variable_choices",
                    "load_template_files_from_filenames", "render_single_file",
                    "create_dir", "write"})
        /\ user_output = [filename |-> None, directory |-> None]
        /\ final_context = None
        /\ fs \in OutputSides
        /\ report = None

\* the root was read, its files collected, and the read of files/sub failed
C21_Witness ==
    /\ template.tree = TreeThree
    /\ parsed.tag = "Ok"
    /\ pc = "done"
    /\ exit_code = Some(-2)
    /\ Len(log) >= 2
    /\ log[Len(log) - 1] = Logged("read_dir", TRUE, <<"files">>)
    /\ log[Len(log)] = Logged("read_dir", FALSE, <<"files", "/", "sub">>)
    /\ filenames = <<>>

(***************************************************************************)
(* C22: after any sequence of mutator calls from new(), output_filename    *)
(* and output_directory are never both populated and a populated one is    *)
(* the one of the current output_type; set_output_filename does nothing    *)
(* unless the type is File, set_output_directory does nothing unless the   *)
(* type is Directory, set_output_type to the current type changes nothing, *)
(* and set_output_type to the other type clears the name that was          *)
(* meaningful before.                                                      *)
(***************************************************************************)
AtMostOneOutputName ==
    /\ ~(config.output_filename # None /\ config.output_directory # None)
    /\ config.output_filename # None => config.output_type = "File"
    /\ config.output_directory # None => config.output_type = "Directory"

\* what a step of each of the three setters does to the configuration
OutputSetterStep ==
    /\ last_call'.op = "set_output_filename" =>
          config' = IF config.output_type = "File"
                    THEN [config EXCEPT !.output_filename = Some(last_call'.arg)]
                    ELSE config
    /\ last_call'.op = "set_output_directory" =>
          config' = IF config.output_type = "Directory"
                    THEN [config EXCEPT !.output_directory = Some(last_call'.arg)]
                    ELSE config
    /\ (last_call'.op = "set_output_type" /\ last_call'.arg = config.output_type) =>
          config' = config
    /\ (last_call'.op = "set_output_type" /\ last_call'.arg # config.output_type) =>
          config' = [config EXCEPT !.output_type = last_call'.arg,
                                   !.output_filename = None,
                                   !.output_directory = None]

C22_OutputNamesMatchType ==
    /\ []AtMostOneOutputName
    /\ [][OutputSetterStep]_vars

C22_Witness ==
    /\ last_call = Call("set_output_directory", "out", None)
    /\ config.output_type = "Directory"
    /\ config.output_directory = Some("out")
    /\ config.output_filename = None
    /\ DOMAIN config.variables # {}

====
